---- MODULE Spec2Model ----
(***************************************************************************)
(* Raju-ai agent core: the Plan -> Execute -> Reflect orchestrator         *)
(* (lib/core/autonomous-agent.ts), the experience store                    *)
(* (lib/services/memory-store.ts), the credential vault                    *)
(* (lib/services/api-vault.ts) and the model manager                       *)
(* (lib/services/model-manager.ts).                                        *)
(*                                                                         *)
(* JavaScript strings are TLA+ strings; an optional value (undefined/null  *)
(* or present) is a tuple of length 0 or 1.  An async function is a        *)
(* sequence of steps, one per point at which it waits for I/O.             *)
(***************************************************************************)
EXTENDS Integers, Sequences, FiniteSets, TLC

\* ------------------------------------------------------------------ bounds
\* Spec: executeTask is invoked at most MaxCalls times and at most MaxFaults
\* I/O operations fail.
MaxCalls == 1
MaxFaults == 2
\* SpecStore: the same for the specification of the store, where the clock
\* Date.now() takes the values 0..MaxStoreTime.
MaxStoreTime == 2
MaxStoreCalls == 3
MaxStoreFaults == 1
\* SpecMemory and SpecQuery: the same for the specifications of the store's
\* operations as the screens call them.
MaxMemoryTime == 1
MaxMemoryCalls == 2
MaxMemoryFaults == 1
MaxQueryCalls == 2
MaxQueryFaults == 1
\* SpecOverlap: executeTask invocations and clock values.
MaxOverlapCalls == 2
MaxOverlapTime == 1
\* SpecModels: clock values.
MaxModelTime == 2
MaxProviderCalls == 2
MaxProviderFaults == 1
MaxMessages == 3
MaxListTime == 1
MaxModels == 2

\* memory-store.ts:11 sets 1000; scaled down so that the limit is reached.
MAX_EXPERIENCES == 2

\* --------------------------------------------------------------- option type
None == <<>>
Some(v) == <<v>>
IsSome(o) == Len(o) = 1
Get(o) == o[1]

\* ------------------------------------------------------------------ strings
\* String.prototype.includes: case-sensitive substring test.
Includes(s, sub) ==
  \E i \in 1..(Len(s) - Len(sub) + 1) : SubSeq(s, i, i + Len(sub) - 1) = sub

Upper == <<"A","B","C","D","E","F","G","H","I","J","K","L","M",
           "N","O","P","Q","R","S","T","U","V","W","X","Y","Z">>
Lower == <<"a","b","c","d","e","f","g","h","i","j","k","l","m",
           "n","o","p","q","r","s","t","u","v","w","x","y","z">>

LowerChar(ch) ==
  IF \E k \in 1..26 : Upper[k] = ch
  THEN Lower[CHOOSE k \in 1..26 : Upper[k] = ch]
  ELSE ch

\* String.prototype.toLowerCase (ASCII letters).
RECURSIVE ToLowerCase(_)
ToLowerCase(s) ==
  IF Len(s) = 0 THEN ""
  ELSE LowerChar(SubSeq(s, 1, 1)) \o ToLowerCase(SubSeq(s, 2, Len(s)))

\* String(error) for an Error object: "<name>: <message>".
ErrorString(name, message) == name \o ": " \o message

\* (x * 100).toFixed(1) for x = num / den, den > 0: one decimal, rounded.
PercentFixed1(num, den) ==
  LET tenths == (2000 * num + den) \div (2 * den)
  IN  ToString(tenths \div 10) \o "." \o ToString(tenths % 10)

\* A number that a division produced: the fraction n / d in lowest terms
\* (d > 0), as <<numerator, denominator>>.
RECURSIVE GCD(_, _)
GCD(a, b) == IF b = 0 THEN a ELSE GCD(b, a % b)
Fraction(n, d) == LET g == GCD(n, d) IN <<n \div g, d \div g>>
Times(q, k) == Fraction(q[1] * k, q[2])

\* ------------------------------------------------------------- sequences
RECURSIVE SelectSeqBy(_, _)
\* Array.prototype.filter with the predicate given as a set of kept indices.
SelectSeqBy(s, keep) ==
  IF s = <<>> THEN <<>>
  ELSE LET rest == SelectSeqBy(Tail(s), {i - 1 : i \in keep \ {1}})
       IN  IF 1 \in keep THEN <<Head(s)>> \o rest ELSE rest

Filter(s, P(_)) == SelectSeqBy(s, {i \in 1..Len(s) : P(s[i])})

\* Insert x into the sequence r, already sorted by descending timestamp,
\* after every element that does not compare greater (stable).
RECURSIVE InsertDesc(_, _)
InsertDesc(r, x) ==
  IF r = <<>> THEN <<x>>
  ELSE IF Head(r).timestamp >= x.timestamp
       THEN <<Head(r)>> \o InsertDesc(Tail(r), x)
       ELSE <<x>> \o r

\* experiences.sort((a, b) => b.timestamp - a.timestamp): stable, newest first.
RECURSIVE SortByTimestampDesc(_)
SortByTimestampDesc(s) ==
  IF s = <<>> THEN <<>>
  ELSE InsertDesc(SortByTimestampDesc(SubSeq(s, 1, Len(s) - 1)), s[Len(s)])

\* Array.prototype.slice(0, n)
Slice0(s, n) == SubSeq(s, 1, IF n < Len(s) THEN n ELSE Len(s))

\* Array.prototype.slice(-n): the last n elements
SliceLast(s, n) == SubSeq(s, IF Len(s) > n THEN Len(s) - n + 1 ELSE 1, Len(s))

\* Array.prototype.reverse
Reverse(s) == [i \in 1..Len(s) |-> s[Len(s) + 1 - i]]

\* String.prototype.trim, for strings whose only white space is blanks
RECURSIVE Trim(_)
Trim(s) ==
  IF s = "" THEN ""
  ELSE IF SubSeq(s, 1, 1) = " " THEN Trim(SubSeq(s, 2, Len(s)))
  ELSE IF SubSeq(s, Len(s), Len(s)) = " " THEN Trim(SubSeq(s, 1, Len(s) - 1))
  ELSE s

\* ------------------------------------------------------- input domains
Providers == {"openai", "anthropic", "gemini"}
Secrets == {"sk-test"}
TaskDescriptions == {"hi", "fix error"}

\* Task texts and search queries of SpecMemory: one text is contained in the
\* other when case is ignored, and the longer one makes the offline output
\* contain "error".
MemoryTasks == {"hi", "Hi there error"}
Queries == {"HI", "OFFLINE", "error", "zzz"}

\* AgentMode values the settings screen passes to setMode
\* (thought-stream-screen.tsx:669-681, 800-803); activeModel is never set.
OfflineMode == [type |-> "offline", activeProvider |-> None]
CloudMode(p) == [type |-> "cloud", activeProvider |-> Some(p)]
ModeInputs == {OfflineMode} \cup {CloudMode(p) : p \in {"openai", "anthropic"}}
\* Providers whose key the settings screen stores or deletes in Spec.
VaultProviders == {"openai"}
\* Keys the settings screen stores in SpecVault (handleSaveKey refuses a
\* blank one).
VaultSecrets == {"sk-test", "sk-other"}

\* What fetch() and the body of the response can do.
\*   reject : the transport fails, fetch rejects with a TypeError
\*   status : a response with ok = false and the given statusText
\*   text   : a 2xx response whose first completion carries the text
\*   empty  : a 2xx response of the expected shape without completion text
\*   shape  : a 2xx response without the expected top-level array
FetchOutcomes ==
  { [kind |-> "reject", text |-> "Network request failed"],
    [kind |-> "status", text |-> "Unauthorized"],
    [kind |-> "text",   text |-> "The weather today is sunny"],
    [kind |-> "text",   text |-> "An error occurred while parsing"],
    [kind |-> "empty",  text |-> ""],
    [kind |-> "shape",  text |-> "Cannot read property '0' of undefined"] }

\* ------------------------------------------------- agent: pure functions
ProviderLabel(p) ==
  CASE p = "openai" -> "OpenAI"
    [] p = "anthropic" -> "Anthropic"
    [] p = "gemini" -> "Gemini"

AnalyzePlan(taskDescription) ==
  "Plan for: \"" \o taskDescription
    \o "\"\n1. Analyze requirements\n2. Identify approach\n3. Execute steps\n4. Verify results"

ExecuteOffline(taskDescription) ==
  "[OFFLINE MODE] Processing: " \o taskDescription
    \o "\n\nNote: Local GGUF model integration pending."

\* callOpenAI / callAnthropic / callGemini: the value the call returns
\* (threw = FALSE) or the string form of the Error it throws (threw = TRUE).
\* Every error raised inside the try block, the one for a non-2xx response
\* included, is caught by the same function and wrapped.
CallProvider(p, outcome) ==
  LET label == ProviderLabel(p)
      wrap(inner) ==
        [threw |-> TRUE,
         value |-> ErrorString("Error", label \o " call failed: " \o inner)]
  IN CASE outcome.kind = "reject" ->
            wrap(ErrorString("TypeError", outcome.text))
       [] outcome.kind = "status" ->
            wrap(ErrorString("Error", label \o " API error: " \o outcome.text))
       [] outcome.kind = "shape" ->
            wrap(ErrorString("TypeError", outcome.text))
       [] outcome.kind = "empty" ->
            [threw |-> FALSE, value |-> "No response from " \o label]
       [] outcome.kind = "text" ->
            [threw |-> FALSE, value |-> outcome.text]

\* executeCloud calling the provider before it looks at the key.
ExecuteCloud_FetchWithoutKey(agentMode, apiKey, outcome) ==
  LET provider == IF IsSome(agentMode.activeProvider)
                  THEN Get(agentMode.activeProvider) ELSE "openai"
  IN IF ~IsSome(apiKey)
     THEN [threw |-> TRUE, fetched |-> TRUE,
           value |-> ErrorString("Error", "No API key found for " \o provider)]
     ELSE [fetched |-> TRUE] @@ CallProvider(provider, outcome)

\* executeCloud: apiKey is what APIVault.getKey returned (None for null).
\* The result also tells whether fetch was called.
ExecuteCloud(agentMode, apiKey, outcome) ==
  LET provider == IF IsSome(agentMode.activeProvider)
                  THEN Get(agentMode.activeProvider) ELSE "openai"
  IN IF ~IsSome(apiKey)
     THEN [threw |-> TRUE, fetched |-> FALSE,
           value |-> ErrorString("Error", "No API key found for " \o provider)]
     ELSE [fetched |-> TRUE] @@ CallProvider(provider, outcome)

\* executePhase taking the cloud path whenever a key is stored.
ExecutePhaseOf_CloudWhenKey(agentMode, taskDescription, apiKey, outcome, startTime) ==
  LET r == IF agentMode.type = "offline" /\ ~IsSome(apiKey)
           THEN [threw |-> FALSE, fetched |-> FALSE,
                 value |-> ExecuteOffline(taskDescription)]
           ELSE ExecuteCloud(agentMode, apiKey, outcome)
  IN [phase |-> [type |-> "execute", timestamp |-> startTime,
                 content |-> IF r.threw THEN "Execution failed: " \o r.value
                             ELSE r.value],
      fetched |-> r.fetched]

\* executePhase: the try block returns the result as the phase content, the
\* catch block turns any error into a phase as well; nothing is rethrown.
ExecutePhaseOf(agentMode, taskDescription, apiKey, outcome, startTime) ==
  LET r == IF agentMode.type = "offline"
           THEN [threw |-> FALSE, fetched |-> FALSE,
                 value |-> ExecuteOffline(taskDescription)]
           ELSE ExecuteCloud(agentMode, apiKey, outcome)
  IN [phase |-> [type |-> "execute", timestamp |-> startTime,
                 content |-> IF r.threw THEN "Execution failed: " \o r.value
                             ELSE r.value],
      fetched |-> r.fetched]

\* selfCorrect
SelfCorrect(pastExperiences) ==
  LET n == Len(pastExperiences)
      k == Cardinality({i \in 1..n : pastExperiences[i].success})
  IN "Reflection: Task completed. Success rate for similar tasks: "
       \o PercentFixed1(k, IF n = 0 THEN 1 ELSE n) \o "%"

\* identifyImprovements
IdentifyImprovements(result) ==
  IF Includes(result, "error")
  THEN <<"Handle error cases better", "Add retry logic">>
  ELSE <<"Task completed successfully">>

\* The details of the reflect phase (lines 171-175); a quotient is a
\* fraction in lowest terms, and `length || 1` is 1 for length 0.
ReflectDetails(similarExperiences, executePhase) ==
  LET n == Len(similarExperiences)
      k == Cardinality({i \in 1..n : similarExperiences[i].success})
  IN [similarExperiences |-> n,
      successRate |-> Fraction(k, IF n = 0 THEN 1 ELSE n),
      improvements |-> IdentifyImprovements(executePhase.content)]

\* reflectPhase with the phase type copied from executePhase.
ReflectPhaseOf_TypedExecute(taskDescription, executePhase, pastExperiences, startTime) ==
  LET similar(e) ==
        Includes(ToLowerCase(e.taskDescription), ToLowerCase(taskDescription))
      similarExperiences == Filter(pastExperiences, similar)
  IN [type |-> "execute", timestamp |-> startTime,
      content |-> SelfCorrect(similarExperiences),
      details |-> ReflectDetails(similarExperiences, executePhase)]

\* reflectPhase looking for the stored text inside the task text.
ReflectPhaseOf_ContainedIn(taskDescription, executePhase, pastExperiences, startTime) ==
  LET similar(e) ==
        Includes(ToLowerCase(taskDescription), ToLowerCase(e.taskDescription))
      similarExperiences == Filter(pastExperiences, similar)
  IN [type |-> "reflect", timestamp |-> startTime,
      content |-> SelfCorrect(similarExperiences),
      details |-> ReflectDetails(similarExperiences, executePhase)]

\* reflectPhase: pastExperiences is what getAllExperiences returned.
ReflectPhaseOf(taskDescription, executePhase, pastExperiences, startTime) ==
  LET similar(e) ==
        Includes(ToLowerCase(e.taskDescription), ToLowerCase(taskDescription))
      similarExperiences == Filter(pastExperiences, similar)
  IN [type |-> "reflect", timestamp |-> startTime,
      content |-> SelfCorrect(similarExperiences),
      details |-> ReflectDetails(similarExperiences, executePhase)]

PlanPhaseOf(taskDescription, startTime) ==
  [type |-> "plan", timestamp |-> startTime,
   content |-> AnalyzePlan(taskDescription)]

\* The success-path Experience with a case-insensitive test for "error".
SuccessExperience_IgnoreCase(taskId, taskDescription, agentMode, executePhase, reasoning, t) ==
  [id |-> "exp_" \o taskId,
   taskDescription |-> taskDescription,
   mode |-> agentMode.type,
   model |-> "default",
   input |-> taskDescription,
   output |-> executePhase.content,
   reasoning |-> reasoning,
   success |-> ~Includes(ToLowerCase(executePhase.content), "error"),
   errorMessage |-> None,
   timestamp |-> t]

\* The success-path Experience carrying its output as errorMessage when it
\* is not a success.
SuccessExperience_WithMessage(taskId, taskDescription, agentMode, executePhase, reasoning, t) ==
  [id |-> "exp_" \o taskId,
   taskDescription |-> taskDescription,
   mode |-> agentMode.type,
   model |-> "default",
   input |-> taskDescription,
   output |-> executePhase.content,
   reasoning |-> reasoning,
   success |-> ~Includes(executePhase.content, "error"),
   errorMessage |-> IF Includes(executePhase.content, "error")
                    THEN Some(executePhase.content) ELSE None,
   timestamp |-> t]

\* The Experience built on the success path (lines 52-62) ...
SuccessExperience(taskId, taskDescription, agentMode, executePhase, reasoning, t) ==
  [id |-> "exp_" \o taskId,
   taskDescription |-> taskDescription,
   mode |-> agentMode.type,
   model |-> "default",
   input |-> taskDescription,
   output |-> executePhase.content,
   reasoning |-> reasoning,
   success |-> ~Includes(executePhase.content, "error"),
   errorMessage |-> None,
   timestamp |-> t]

\* The catch-block Experience without its errorMessage.
FailureExperience_NoMessage(taskId, taskDescription, agentMode, err, reasoning, t) ==
  [id |-> "exp_" \o taskId,
   taskDescription |-> taskDescription,
   mode |-> agentMode.type,
   model |-> "default",
   input |-> taskDescription,
   output |-> err,
   reasoning |-> reasoning,
   success |-> FALSE,
   errorMessage |-> None,
   timestamp |-> t]

\* ... and in the catch block (lines 70-81); err is String(error).
FailureExperience(taskId, taskDescription, agentMode, err, reasoning, t) ==
  [id |-> "exp_" \o taskId,
   taskDescription |-> taskDescription,
   mode |-> agentMode.type,
   model |-> "default",
   input |-> taskDescription,
   output |-> err,
   reasoning |-> reasoning,
   success |-> FALSE,
   errorMessage |-> Some(err),
   timestamp |-> t]

\* -------------------------------------------- memory store: pure functions
\* A storage state st is [exp, stats, used]: the values under
\* EXPERIENCES_STORAGE_KEY and MEMORY_STATS_KEY (absent: None) and the set of
\* I/O operations performed so far by the running store operation.  F is the
\* set of I/O operations that fail when they are performed.

Use(st, op) == [st EXCEPT !.used = @ \cup {op}]

\* Length of JSON.stringify(experiences): brackets, separators, and per
\* record the text of its string fields and of its phases; key names,
\* quotes, numbers and escapes are counted as a fixed share per record/phase.
RECURSIVE SumSeq(_)
SumSeq(s) == IF s = <<>> THEN 0 ELSE Head(s) + SumSeq(Tail(s))

SumOver(s, f(_)) == SumSeq([i \in 1..Len(s) |-> f(s[i])])

JsonLength(experiences) ==
  LET phaseLen(ph) == 40 + Len(ph.type) + Len(ph.content)
      recLen(e) == 200 + Len(e.id) + Len(e.taskDescription) + Len(e.mode)
                     + Len(e.model) + Len(e.input) + Len(e.output)
                     + (IF IsSome(e.errorMessage) THEN Len(Get(e.errorMessage)) ELSE 0)
                     + Len(e.reasoning.id) + Len(e.reasoning.taskId)
                     + SumOver(e.reasoning.phases, phaseLen)
      n == Len(experiences)
  IN 2 + SumOver(experiences, recLen) + (IF n > 1 THEN n - 1 ELSE 0)

\* getAllExperiences: a failing read is caught and gives [].
GetAllExperiences(item, readOk) ==
  IF readOk /\ IsSome(item) THEN Get(item) ELSE <<>>

DefaultStats(t) ==
  [totalExperiences |-> 0, totalMemorySize |-> 0, lastCleanup |-> t]

\* getMemoryStats: [st, stats]; writes the initial stats when none exist.
GetMemoryStats(st, F, readOp, initOp, t) ==
  LET st1 == Use(st, readOp)
  IN IF readOp \in F THEN [st |-> st1, stats |-> DefaultStats(t)]
     ELSE IF IsSome(st1.stats) THEN [st |-> st1, stats |-> Get(st1.stats)]
     ELSE LET st2 == Use(st1, initOp)
          IN [st |-> IF initOp \in F THEN st2
                     ELSE [st2 EXCEPT !.stats = Some(DefaultStats(t))],
              stats |-> DefaultStats(t)]

\* updateStats stamping lastCleanup with the time of the call.
UpdateStats_StampsCleanup(st, F, t) ==
  LET st1 == Use(st, "uRead")
      experiences == GetAllExperiences(st1.exp, "uRead" \notin F)
      g == GetMemoryStats(st1, F, "uStatsRead", "uStatsInit", t)
      stats == [totalExperiences |-> Len(experiences),
                totalMemorySize |-> JsonLength(experiences),
                lastCleanup |-> t]
      st2 == Use(g.st, "uStatsWrite")
  IN IF "uStatsWrite" \in F THEN st2 ELSE [st2 EXCEPT !.stats = Some(stats)]

\* updateStats: every failure is caught and logged.
UpdateStats(st, F, t) ==
  LET st1 == Use(st, "uRead")
      experiences == GetAllExperiences(st1.exp, "uRead" \notin F)
      g == GetMemoryStats(st1, F, "uStatsRead", "uStatsInit", t)
      stats == [totalExperiences |-> Len(experiences),
                totalMemorySize |-> JsonLength(experiences),
                lastCleanup |-> g.stats.lastCleanup]
      st2 == Use(g.st, "uStatsWrite")
  IN IF "uStatsWrite" \in F THEN st2 ELSE [st2 EXCEPT !.stats = Some(stats)]

KeepCount == (MAX_EXPERIENCES * 8) \div 10

\* cleanupOldExperiences: reads the record set again, writes the newest
\* KeepCount records back and stamps lastCleanup; failures are caught.
CleanupOldExperiences(st, F, t) ==
  LET st1 == Use(st, "cRead")
      experiences == GetAllExperiences(st1.exp, "cRead" \notin F)
      kept == Slice0(SortByTimestampDesc(experiences), KeepCount)
      st2 == Use(st1, "cWrite")
  IN IF "cWrite" \in F THEN st2
     ELSE LET st3 == [st2 EXCEPT !.exp = Some(kept)]
              g == GetMemoryStats(st3, F, "cStatsRead", "cStatsInit", t)
              stats == [g.stats EXCEPT !.lastCleanup = t]
              st4 == Use(g.st, "cStatsWrite")
          IN IF "cStatsWrite" \in F THEN st4
             ELSE [st4 EXCEPT !.stats = Some(stats)]

\* storeExperience after line 44: experiences is the array that
\* getAllExperiences returned to it.  Result: [st, threw].
StoreExperience(st, experiences, experience, F, t) ==
  LET st1 == IF Len(experiences) >= MAX_EXPERIENCES
             THEN CleanupOldExperiences(st, F, t) ELSE st
      st2 == Use(st1, "write")
  IN IF "write" \in F THEN [st |-> st2, threw |-> TRUE]
     ELSE [st |-> UpdateStats([st2 EXCEPT !.exp = Some(Append(experiences, experience))],
                              F, t),
           threw |-> FALSE]

\* deleteExperience keeping the records that carry the id.
DeleteExperienceOf_KeepMatching(st, experienceId, F, t) ==
  LET st1 == Use(st, "read")
      experiences == GetAllExperiences(st1.exp, "read" \notin F)
      keep(e) == e.id = experienceId
      filtered == Filter(experiences, keep)
      st2 == Use(st1, "write")
  IN IF "write" \in F THEN [st |-> st2, threw |-> TRUE]
     ELSE [st |-> UpdateStats([st2 EXCEPT !.exp = Some(filtered)], F, t),
           threw |-> FALSE]

\* deleteExperience.  Result: [st, threw].
DeleteExperienceOf(st, experienceId, F, t) ==
  LET st1 == Use(st, "read")
      experiences == GetAllExperiences(st1.exp, "read" \notin F)
      keep(e) == e.id # experienceId
      filtered == Filter(experiences, keep)
      st2 == Use(st1, "write")
  IN IF "write" \in F THEN [st |-> st2, threw |-> TRUE]
     ELSE [st |-> UpdateStats([st2 EXCEPT !.exp = Some(filtered)], F, t),
           threw |-> FALSE]

\* clearAllExperiences removing the records and leaving the stats alone.
ClearAllExperiencesOf_KeepStats(st, F, t) ==
  LET st1 == Use(st, "remove")
  IN IF "remove" \in F THEN [st |-> st1, threw |-> TRUE]
     ELSE LET st2 == Use([st1 EXCEPT !.exp = None], "statsWrite")
          IN IF "statsWrite" \in F THEN [st |-> st2, threw |-> TRUE]
             ELSE [st |-> st2, threw |-> FALSE]

\* clearAllExperiences.  Result: [st, threw].
ClearAllExperiencesOf(st, F, t) ==
  LET st1 == Use(st, "remove")
  IN IF "remove" \in F THEN [st |-> st1, threw |-> TRUE]
     ELSE LET st2 == Use([st1 EXCEPT !.exp = None], "statsWrite")
          IN IF "statsWrite" \in F THEN [st |-> st2, threw |-> TRUE]
             ELSE [st |-> [st2 EXCEPT !.stats = Some(DefaultStats(t))],
                   threw |-> FALSE]

\* searchExperiences with the query compared as typed.
SearchExperiencesOf_CaseSensitiveQuery(item, query, readOk) ==
  LET experiences == GetAllExperiences(item, readOk)
      match(e) == \/ Includes(ToLowerCase(e.taskDescription), query)
                  \/ Includes(ToLowerCase(e.input), query)
                  \/ Includes(ToLowerCase(e.output), query)
  IN Filter(experiences, match)

\* searchExperiences; readOk: whether the read of the record set succeeds.
SearchExperiencesOf(item, query, readOk) ==
  LET experiences == GetAllExperiences(item, readOk)
      lowerQuery == ToLowerCase(query)
      match(e) == \/ Includes(ToLowerCase(e.taskDescription), lowerQuery)
                  \/ Includes(ToLowerCase(e.input), lowerQuery)
                  \/ Includes(ToLowerCase(e.output), lowerQuery)
  IN Filter(experiences, match)

\* getSuccessRate with the rate left as a share of 1.
GetSuccessRateOf_Share(item, readOk) ==
  LET experiences == GetAllExperiences(item, readOk)
      succeeded(e) == e.success
      successful == Len(Filter(experiences, succeeded))
  IN [successful |-> successful,
      failed |-> Len(experiences) - successful,
      rate |-> IF Len(experiences) > 0
               THEN Fraction(successful, Len(experiences))
               ELSE Fraction(0, 1)]

\* getSuccessRate
GetSuccessRateOf(item, readOk) ==
  LET experiences == GetAllExperiences(item, readOk)
      succeeded(e) == e.success
      successful == Len(Filter(experiences, succeeded))
  IN [successful |-> successful,
      failed |-> Len(experiences) - successful,
      rate |-> IF Len(experiences) > 0
               THEN Times(Fraction(successful, Len(experiences)), 100)
               ELSE Fraction(0, 1)]

\* ------------------------------------------- model manager: pure functions
\* A file system state is a function from model names to the size of the
\* file at MODELS_DIR + name + ".gguf" (None: no such file).
MODELS_DIR == "file:///data/models/"
ModelPath(modelName) == MODELS_DIR \o modelName \o ".gguf"
MB == 1024 * 1024

\* getStorageInfo: the placeholder does not consult the device.
GetStorageInfo(device) == [totalSpace |-> 0, freeSpace |-> 0, usedSpace |-> 0]

\* getAllModels
GetAllModels(item, readOk) ==
  IF readOk /\ IsSome(item) THEN Get(item) ELSE <<>>

\* verifyFileIntegrity(filePath) for the file of the given size (None: the
\* file does not exist).  Sizes are whole bytes; size / MB < 1 is size < MB.
VerifyFileIntegrity(file) ==
  IF ~IsSome(file)
  THEN [fileSize |-> 0, isValid |-> FALSE, error |-> "File does not exist"]
  ELSE IF Get(file) < MB
  THEN [fileSize |-> Get(file), isValid |-> FALSE, error |-> "File size too small"]
  ELSE [fileSize |-> Get(file), isValid |-> TRUE, error |-> ""]

\* The model record of downloadModel, lines 91-101.
NewModel(url, modelName, fileSize, t) ==
  [id |-> "model_" \o ToString(t),
   name |-> modelName,
   url |-> url,
   fileSize |-> fileSize,
   downloadedAt |-> t,
   localPath |-> ModelPath(modelName),
   format |-> "gguf",
   isActive |-> FALSE]

\* saveModel.  F: the failing operations among mRead (getItem) and mWrite
\* (setItem).  Result: [item, threw].
SaveModelOf(item, model, F) ==
  LET models == GetAllModels(item, "mRead" \notin F)
  IN IF "mWrite" \in F THEN [item |-> item, threw |-> TRUE]
     ELSE [item |-> Some(Append(models, model)), threw |-> FALSE]

\* downloadModel.  device: the free space of the device; transfer: what
\* downloadAsync does (reject : it rejects, none : it resolves without a
\* result, file : it writes a file of the given size); F: the failing
\* operations among mRead (getItem) and mWrite (setItem) of saveModel.
\* Result: [item, files, used, threw, value], value being the Model that is
\* returned or the string form of the error that is thrown.
DownloadModelOf(item, files, device, url, modelName, transfer, F, t) ==
  LET storage == GetStorageInfo(device)
      fail(text, fs, used) ==
        [item |-> item, files |-> fs, used |-> used, threw |-> TRUE,
         value |-> text]
  IN IF storage.freeSpace < 100 * MB
     THEN fail(ErrorString("Error", "Insufficient storage space"), files, {})
     ELSE IF transfer.kind = "reject"
     THEN fail(ErrorString("Error", transfer.text), files, {})
     ELSE IF transfer.kind = "none"
     THEN fail(ErrorString("Error", "Download failed"), files, {})
     ELSE LET written == [files EXCEPT ![modelName] = Some(transfer.size)]
              integrityCheck == VerifyFileIntegrity(written[modelName])
          IN IF ~integrityCheck.isValid
             THEN fail(ErrorString("Error", "File integrity check failed: "
                                              \o integrityCheck.error),
                       [written EXCEPT ![modelName] = None], {})
             ELSE LET model == NewModel(url, modelName,
                                        integrityCheck.fileSize, t)
                      saved == SaveModelOf(item, model, F)
                  IN IF saved.threw
                     THEN fail(ErrorString("Error", "Failed to save model record"),
                               written, {"mRead", "mWrite"})
                     ELSE [item |-> saved.item,
                           files |-> written, used |-> {"mRead", "mWrite"},
                           threw |-> FALSE, value |-> model]

\* setActiveModel.  Result: [item, threw].
SetActiveModelOf(item, modelId, readOk, writeOk) ==
  LET models == GetAllModels(item, readOk)
      updatedModels == [i \in 1..Len(models) |->
                          [models[i] EXCEPT !.isActive = (models[i].id = modelId)]]
  IN IF writeOk THEN [item |-> Some(updatedModels), threw |-> FALSE]
     ELSE [item |-> item, threw |-> TRUE]

\* deleteModel.  F: the failing operations among gRead (getItem of
\* getModel), fDelete (deleteAsync), mRead (getItem) and mWrite (setItem).
\* Result: [item, files, used, threw].
DeleteModelOf(item, files, modelId, F) ==
  LET found == GetAllModels(item, "gRead" \notin F)
      hits == {i \in 1..Len(found) : found[i].id = modelId}
  IN IF hits = {}
     THEN [item |-> item, files |-> files, used |-> {"gRead"}, threw |-> TRUE]
     ELSE LET model == found[CHOOSE i \in hits : \A k \in hits : i <= k]
              files1 == IF "fDelete" \in F THEN files
                        ELSE [files EXCEPT ![model.name] = None]
              models == GetAllModels(item, "mRead" \notin F)
              keep(m) == m.id # modelId
              updatedModels == Filter(models, keep)
              used == {"gRead", "fDelete", "mRead", "mWrite"}
          IN IF "mWrite" \in F
             THEN [item |-> item, files |-> files1, used |-> used, threw |-> TRUE]
             ELSE [item |-> Some(updatedModels), files |-> files1, used |-> used,
                   threw |-> FALSE]

\* Inputs of the model manager.
ModelNames == {"tiny", "mistral"}
ModelUrls == {"https://models.example/m.gguf"}
DeviceFreeSpace == {0, 100 * MB - 1, 100 * MB, 200 * MB}
Transfers ==
  { [kind |-> "reject", text |-> "Unable to resolve host", size |-> 0],
    [kind |-> "none", text |-> "", size |-> 0],
    [kind |-> "file", text |-> "", size |-> MB - 1],
    [kind |-> "file", text |-> "", size |-> MB] }

\* -------------------------------------------------------------------- state
VARIABLES
  now,                  \* Date.now()
  experiencesItem,      \* AsyncStorage value under EXPERIENCES_STORAGE_KEY
  statsItem,            \* AsyncStorage value under MEMORY_STATS_KEY
  secureStore,          \* SecureStore value under API_KEY_PREFIX + provider
  mode,                 \* agent.mode
  currentThoughtStream, \* agent.currentThoughtStream: 0 (null) or the call owning it
  calls,                \* the executeTask invocations made so far, in order
  lastOp,               \* the last store operation that completed (history)
  started,              \* executeTask invocations so far
  faults,               \* I/O operations that have failed so far
  answer,               \* what the last read operation of the store returned
  modelsItem,           \* AsyncStorage value under MODELS_STORAGE_KEY
  modelFiles,           \* sizes of the files under MODELS_DIR, by model name
  lastModelOp,          \* the last saveModel/setActiveModel/deleteModel call
  lastDownload,         \* the last downloadModel call and its outcome (history)
  isProcessing,         \* AgentProvider state isProcessing
  handlers,             \* the handleExecuteTask invocations, one per executeTask slot
  providerThoughtStream, \* AgentProvider state currentThoughtStream
  recentExperiences,    \* AgentProvider state recentExperiences
  memoryStats,          \* AgentProvider state memoryStats
  messages,             \* App state messages
  input,                \* App state input
  sends,                \* the send invocations waiting for their completion
  alerts                \* Alert.alert calls made by send so far

modelVars == <<modelsItem, modelFiles, lastDownload, lastModelOp>>

uiVars == <<isProcessing, handlers, providerThoughtStream, recentExperiences,
            memoryStats>>
appVars == <<messages, input, sends, alerts>>

vars == <<now, experiencesItem, statsItem, secureStore, mode,
          currentThoughtStream, calls, lastOp, started, faults,
          answer, modelVars, uiVars, appVars>>

\* Values of the history variables before any operation.
NoAnswer == [op |-> "none", arg |-> "", readOk |-> TRUE, result |-> <<>>,
             flip |-> FALSE]
SendSlots == {1, 2}
ChatInputs == {"", " ", "hi", "yo"}
Replies == {"ok"}
NoModelOp == [op |-> "none", id |-> "", readOk |-> TRUE, threw |-> FALSE,
              flip |-> FALSE]
NoDownload == [op |-> "none", device |-> 0, url |-> "", modelName |-> "",
               transfer |-> "none", size |-> 0, threw |-> FALSE,
               value |-> "", at |-> 0]

\* The subsets of ops with at most k elements.
RECURSIVE SubsetsUpTo(_, _)
SubsetsUpTo(ops, k) ==
  IF k <= 0 THEN {{}}
  ELSE LET S == SubsetsUpTo(ops, k - 1)
       IN  S \cup {T \cup {o} : T \in S, o \in ops}

\* The failing subsets of I/O operations that a fault budget still allows.
FaultSets(ops, limit) == SubsetsUpTo(ops, limit - faults)

\* executeTask invocations that may be in progress at the same time.
Slots == {1, 2}

IdleCall ==
  [pc |-> "idle", taskDescription |-> "", taskId |-> "",
   thoughtStream |-> [id |-> "", taskId |-> "", phases |-> <<>>,
                      startTime |-> 0, endTime |-> None],
   phaseStart |-> 0, execMode |-> OfflineMode, experiences |-> <<>>,
   experience |-> None, error |-> None, returned |-> None, thrown |-> None,
   credential |-> None, apiKey |-> None, fetchOutcome |-> "none",
   fetches |-> 0, countAtStart |-> 0]

Storage == [exp |-> experiencesItem, stats |-> statsItem, used |-> {}]

Stored == GetAllExperiences(experiencesItem, TRUE)

InFlight(c) == calls[c].pc \notin {"idle", "resolved", "rejected"}
Quiescent == \A c \in Slots : ~InFlight(c)

Init ==
  /\ now = 0
  /\ experiencesItem = None
  /\ statsItem = None
  /\ secureStore = [p \in Providers |-> None]
  /\ mode = OfflineMode
  /\ currentThoughtStream = 0
  /\ calls = [c \in Slots |-> IdleCall]
  /\ started = 0
  /\ lastOp = [op |-> "none", id |-> "", threw |-> FALSE, failed |-> FALSE,
               evicted |-> FALSE, flip |-> FALSE]
  /\ faults = 0
  /\ answer = NoAnswer
  /\ modelsItem = None
  /\ modelFiles = [n \in ModelNames |-> None]
  /\ lastDownload = NoDownload
  /\ lastModelOp = NoModelOp
  /\ isProcessing = FALSE
  /\ handlers = [c \in Slots |-> "idle"]
  /\ providerThoughtStream = None
  /\ recentExperiences = <<>>
  /\ memoryStats = [totalExperiences |-> 0, totalMemorySize |-> 0]
  /\ messages = <<>>
  /\ input = ""
  /\ sends = [k \in SendSlots |-> None]
  /\ alerts = 0

Tick(limit) ==
  /\ now < limit
  /\ now' = now + 1
  /\ UNCHANGED <<experiencesItem, statsItem, secureStore, mode,
                 currentThoughtStream, calls, lastOp, started, faults,
                 answer, modelVars,
                 uiVars, appVars>>

\* ------------------------------------------------------------ API vault
\* storeKey: a failing write (writeOk = FALSE) throws and leaves the stored
\* value alone.
StoreKey(p, key, writeOk) ==
  /\ secureStore' = IF writeOk THEN [secureStore EXCEPT ![p] = Some(key)]
                    ELSE secureStore
  /\ UNCHANGED <<now, experiencesItem, statsItem, mode,
                 currentThoughtStream, calls, lastOp, started, faults,
                 answer, modelVars,
                 uiVars, appVars>>

DeleteKey(p, deleteOk) ==
  /\ secureStore' = IF deleteOk THEN [secureStore EXCEPT ![p] = None]
                    ELSE secureStore
  /\ UNCHANGED <<now, experiencesItem, statsItem, mode,
                 currentThoughtStream, calls, lastOp, started, faults,
                 answer, modelVars,
                 uiVars, appVars>>

\* getKey reading the entry of the default provider.
GetKey_DefaultProvider(p, readOk) ==
  IF readOk /\ IsSome(secureStore["openai"]) /\ Get(secureStore["openai"]) # ""
  THEN secureStore["openai"] ELSE None

\* getKey: `key || null`, and null when the read fails.
GetKey(p, readOk) ==
  IF readOk /\ IsSome(secureStore[p]) /\ Get(secureStore[p]) # ""
  THEN secureStore[p] ELSE None

\* A call of getKey by the settings screen; the result goes to answer.
GetKeyCall(p, readOk) ==
  /\ answer' = [op |-> "getKey", arg |-> p, readOk |-> readOk,
                result |-> GetKey(p, readOk), flip |-> ~answer.flip]
  /\ UNCHANGED <<now, experiencesItem, statsItem, secureStore, mode,
                 currentThoughtStream, calls, lastOp, started, faults,
                 modelVars,
                 uiVars, appVars>>

\* ---------------------------------------------------------------- agent
SetMode(m) ==
  /\ mode' = m
  /\ UNCHANGED <<now, experiencesItem, statsItem, secureStore,
                 currentThoughtStream, calls, lastOp, started, faults,
                 answer, modelVars,
                 uiVars, appVars>>

\* executeTask leaving the current trace alone while its owner is running.
Start_KeepsCurrent(c, taskDescription, limit) ==
  /\ ~InFlight(c)
  /\ started < limit
  /\ started' = started + 1
  /\ LET taskId == "task_" \o ToString(now)
     IN calls' = [calls EXCEPT ![c] =
          [pc |-> "plan",
           taskDescription |-> taskDescription,
           taskId |-> taskId,
           thoughtStream |-> [id |-> "thought_" \o taskId, taskId |-> taskId,
                              phases |-> <<>>, startTime |-> now,
                              endTime |-> None],
           phaseStart |-> now,
           execMode |-> mode,
           experiences |-> <<>>,
           experience |-> None,
           error |-> None,
           returned |-> None,
           thrown |-> None,
           credential |-> None,
           apiKey |-> None,
           fetchOutcome |-> "none",
           fetches |-> 0,
           countAtStart |-> Len(Stored)]]
  /\ currentThoughtStream' =
       IF currentThoughtStream # 0 /\ InFlight(currentThoughtStream)
         THEN currentThoughtStream ELSE c
  /\ UNCHANGED <<now, experiencesItem, statsItem, secureStore, mode,
                 lastOp, faults,
                 answer, modelVars,
                 appVars>>

\* executeTask, lines 26-34, and planPhase up to its first await.  The state
\* of the AgentProvider is left to the caller.
Start(c, taskDescription, limit) ==
  /\ ~InFlight(c)
  /\ started < limit
  /\ started' = started + 1
  /\ LET taskId == "task_" \o ToString(now)
     IN calls' = [calls EXCEPT ![c] =
          [pc |-> "plan",
           taskDescription |-> taskDescription,
           taskId |-> taskId,
           thoughtStream |-> [id |-> "thought_" \o taskId, taskId |-> taskId,
                              phases |-> <<>>, startTime |-> now,
                              endTime |-> None],
           phaseStart |-> now,
           execMode |-> mode,
           experiences |-> <<>>,
           experience |-> None,
           error |-> None,
           returned |-> None,
           thrown |-> None,
           credential |-> None,
           apiKey |-> None,
           fetchOutcome |-> "none",
           fetches |-> 0,
           countAtStart |-> Len(Stored)]]
  /\ currentThoughtStream' = c
  /\ UNCHANGED <<now, experiencesItem, statsItem, secureStore, mode,
                 lastOp, faults,
                 answer, modelVars,
                 appVars>>

\* getCurrentThoughtStream: the trace the slot refers to, or null.
GetCurrentThoughtStream ==
  IF currentThoughtStream = 0 THEN None
  ELSE Some(calls[currentThoughtStream].thoughtStream)

\* Lines 38-39; executePhase then starts and reads the mode (lines 122-131).
PlanPhase(c) ==
  /\ calls[c].pc = "plan"
  /\ calls' = [calls EXCEPT
       ![c].thoughtStream.phases =
          Append(@, PlanPhaseOf(calls[c].taskDescription, calls[c].phaseStart)),
       ![c].phaseStart = now,
       ![c].execMode = mode,
       ![c].pc = "execute"]
  /\ UNCHANGED <<now, experiencesItem, statsItem, secureStore, mode,
                 currentThoughtStream, lastOp, started, faults,
                 answer, modelVars,
                 uiVars, appVars>>

\* executeOffline / executeCloud complete (lines 128-148); lines 42-43;
\* reflectPhase then starts.  F: whether the vault read fails.  The inputs
\* that the taken path does not consult are fixed (no fault, "empty").
\* credential and fetchOutcome record what the vault held and what the
\* provider call did (history).
ExecutePhase(c, outcome, F) ==
  /\ calls[c].pc = "execute"
  /\ LET m == calls[c].execMode
         provider == IF IsSome(m.activeProvider) THEN Get(m.activeProvider)
                     ELSE "openai"
         apiKey == GetKey(provider, "getItem" \notin F)
         r == ExecutePhaseOf(m, calls[c].taskDescription, apiKey, outcome,
                             calls[c].phaseStart)
     IN /\ m.type = "offline" => (F = {} /\ outcome.kind = "empty")
        /\ (m.type = "cloud" /\ ~r.fetched) => outcome.kind = "empty"
        /\ calls' = [calls EXCEPT
             ![c].thoughtStream.phases = Append(@, r.phase),
             ![c].fetches = @ + (IF r.fetched THEN 1 ELSE 0),
             ![c].credential = IF m.type = "cloud" THEN secureStore[provider] ELSE None,
             ![c].apiKey = IF m.type = "cloud" THEN apiKey ELSE None,
             ![c].fetchOutcome = IF r.fetched THEN outcome.kind ELSE "none",
             ![c].phaseStart = now,
             ![c].pc = "reflect"]
  /\ faults' = faults + Cardinality(F)
  /\ UNCHANGED <<now, experiencesItem, statsItem, secureStore, mode,
                 currentThoughtStream, lastOp, started,
                 answer, modelVars,
                 uiVars, appVars>>

\* reflectPhase completes (lines 159-183, F: whether its read of the store
\* fails); lines 46-62; storeExperience is called and starts its read.
ReflectPhase(c, F) ==
  /\ calls[c].pc = "reflect"
  /\ LET past == GetAllExperiences(experiencesItem, "read" \notin F)
         phase == ReflectPhaseOf(calls[c].taskDescription,
                                 calls[c].thoughtStream.phases[2], past,
                                 calls[c].phaseStart)
         stream == [calls[c].thoughtStream EXCEPT
                      !.phases = Append(@, phase), !.endTime = Some(now)]
     IN calls' = [calls EXCEPT
          ![c].thoughtStream = stream,
          ![c].experience =
             Some(SuccessExperience(calls[c].taskId, calls[c].taskDescription,
                                    mode, stream.phases[2], stream, now)),
          ![c].pc = "store_read"]
  /\ faults' = faults + Cardinality(F)
  /\ UNCHANGED <<now, experiencesItem, statsItem, secureStore, mode,
                 currentThoughtStream, lastOp, started,
                 answer, modelVars,
                 uiVars, appVars>>

\* storeExperience, line 44.
StoreRead(c, F) ==
  /\ calls[c].pc = "store_read"
  /\ calls' = [calls EXCEPT
       ![c].experiences = GetAllExperiences(experiencesItem, "read" \notin F),
       ![c].pc = "store_write"]
  /\ faults' = faults + Cardinality(F)
  /\ UNCHANGED <<now, experiencesItem, statsItem, secureStore, mode,
                 currentThoughtStream, lastOp, started,
                 answer, modelVars,
                 uiVars, appVars>>

StoreError == [text |-> ErrorString("Error", "Failed to store experience")]

\* storeExperience, lines 47-59, and what executeTask does with its result:
\* return (line 66), enter the catch block and store again (lines 67-83),
\* or throw (line 85, or out of line 83 when the second store throws).
\* An error is [text, raisedBy]: its string form and the storeExperience
\* call (1: line 64, 2: line 83) that raised it.
StoreWrite(c, F) ==
  /\ calls[c].pc = "store_write"
  /\ LET inCatch == IsSome(calls[c].error)
         experience == Get(calls[c].experience)
         r == StoreExperience(Storage, calls[c].experiences, experience, F, now)
     IN /\ F \subseteq r.st.used
        /\ experiencesItem' = r.st.exp
        /\ statsItem' = r.st.stats
        /\ lastOp' = [op |-> "store", id |-> experience.id, threw |-> r.threw,
                      failed |-> F # {},
                      evicted |-> Len(calls[c].experiences) >= MAX_EXPERIENCES,
                      flip |-> ~lastOp.flip]
        /\ calls' =
             IF ~r.threw /\ ~inCatch
               THEN [calls EXCEPT ![c].returned = Some(experience),
                                  ![c].pc = "resolved"]
             ELSE IF ~r.threw
               THEN [calls EXCEPT ![c].thrown = calls[c].error,
                                  ![c].pc = "rejected"]
             ELSE IF ~inCatch
               THEN LET error == StoreError @@ [raisedBy |-> 1]
                        stream == [calls[c].thoughtStream EXCEPT
                                     !.endTime = Some(now)]
                    IN [calls EXCEPT
                          ![c].error = Some(error),
                          ![c].thoughtStream = stream,
                          ![c].experience =
                             Some(FailureExperience(calls[c].taskId,
                                    calls[c].taskDescription, mode,
                                    error.text, stream, now)),
                          ![c].pc = "store_read"]
             ELSE [calls EXCEPT
                     ![c].thrown = Some(StoreError @@ [raisedBy |-> 2]),
                     ![c].pc = "rejected"]
  /\ faults' = faults + Cardinality(F)
  /\ UNCHANGED <<now, secureStore, mode, currentThoughtStream, started,
                 answer, modelVars,
                 uiVars, appVars>>

\* --------------------------------------------- store operations of the UI
DeleteExperience(experienceId, F) ==
  /\ LET r == DeleteExperienceOf(Storage, experienceId, F, now)
     IN /\ F \subseteq r.st.used
        /\ experiencesItem' = r.st.exp
        /\ statsItem' = r.st.stats
        /\ lastOp' = [op |-> "delete", id |-> experienceId, threw |-> r.threw,
                      failed |-> F # {}, evicted |-> FALSE, flip |-> ~lastOp.flip]
  /\ faults' = faults + Cardinality(F)
  /\ UNCHANGED <<now, secureStore, mode, currentThoughtStream, calls, started,
                 answer, modelVars,
                 uiVars, appVars>>

ClearAllExperiences(F) ==
  /\ LET r == ClearAllExperiencesOf(Storage, F, now)
     IN /\ F \subseteq r.st.used
        /\ experiencesItem' = r.st.exp
        /\ statsItem' = r.st.stats
        /\ lastOp' = [op |-> "clear", id |-> "", threw |-> r.threw,
                      failed |-> F # {}, evicted |-> FALSE, flip |-> ~lastOp.flip]
  /\ faults' = faults + Cardinality(F)
  /\ UNCHANGED <<now, secureStore, mode, currentThoughtStream, calls, started,
                 answer, modelVars,
                 uiVars, appVars>>

\* ------------------------------------------------ read operations of the UI
SearchExperiences(query, F) ==
  /\ answer' = [op |-> "search", arg |-> query, readOk |-> "read" \notin F,
                result |-> SearchExperiencesOf(experiencesItem, query,
                                               "read" \notin F),
                flip |-> ~answer.flip]
  /\ faults' = faults + Cardinality(F)
  /\ UNCHANGED <<now, experiencesItem, statsItem, secureStore, mode,
                 currentThoughtStream, calls, lastOp, started, modelVars,
                 uiVars, appVars>>

GetSuccessRate(F) ==
  /\ answer' = [op |-> "successRate", arg |-> "", readOk |-> "read" \notin F,
                result |-> GetSuccessRateOf(experiencesItem, "read" \notin F),
                flip |-> ~answer.flip]
  /\ faults' = faults + Cardinality(F)
  /\ UNCHANGED <<now, experiencesItem, statsItem, secureStore, mode,
                 currentThoughtStream, calls, lastOp, started, modelVars,
                 uiVars, appVars>>

\* ------------------------------------------------------- model manager
DownloadModel(device, url, modelName, transfer, F) ==
  /\ LET r == DownloadModelOf(modelsItem, modelFiles, device, url, modelName,
                              transfer, F, now)
     IN /\ F \subseteq r.used
        /\ modelsItem' = r.item
        /\ modelFiles' = r.files
        /\ lastDownload' = [op |-> "download", device |-> device, url |-> url,
                            modelName |-> modelName, transfer |-> transfer.kind,
                            size |-> transfer.size, threw |-> r.threw,
                            value |-> r.value, at |-> now]
  /\ faults' = faults + Cardinality(F)
  /\ UNCHANGED <<now, experiencesItem, statsItem, secureStore, mode,
                 currentThoughtStream, calls, lastOp, started, answer,
                 lastModelOp,
                 uiVars, appVars>>

\* downloadModel from line 91 on, for a file that has been written and has
\* passed the integrity check: the record is created and saved.
SaveModel(url, modelName, fileSize, F, limit) ==
  /\ Len(GetAllModels(modelsItem, TRUE)) < limit
  /\ LET model == NewModel(url, modelName, fileSize, now)
         r == SaveModelOf(modelsItem, model, F)
     IN /\ modelsItem' = r.item
        /\ lastModelOp' = [op |-> "save", id |-> model.id,
                           readOk |-> "mRead" \notin F, threw |-> r.threw,
                           flip |-> ~lastModelOp.flip]
  /\ modelFiles' = [modelFiles EXCEPT ![modelName] = Some(fileSize)]
  /\ UNCHANGED <<now, experiencesItem, statsItem, secureStore, mode,
                 currentThoughtStream, calls, lastOp, started, faults, answer,
                 lastDownload,
                 uiVars, appVars>>

DeleteModel(modelId, F) ==
  /\ LET r == DeleteModelOf(modelsItem, modelFiles, modelId, F)
     IN /\ F \subseteq r.used
        /\ modelsItem' = r.item
        /\ modelFiles' = r.files
        /\ lastModelOp' = [op |-> "delete", id |-> modelId,
                           readOk |-> F \cap {"gRead", "mRead"} = {},
                           threw |-> r.threw, flip |-> ~lastModelOp.flip]
  /\ UNCHANGED <<now, experiencesItem, statsItem, secureStore, mode,
                 currentThoughtStream, calls, lastOp, started, faults, answer,
                 lastDownload,
                 uiVars, appVars>>

\* Ids a caller may pass to setActiveModel: the stored ones and one that no
\* model has.
ModelIds ==
  LET models == GetAllModels(modelsItem, TRUE)
  IN {models[i].id : i \in 1..Len(models)} \cup {"model_none"}

SetActiveModel(modelId, readOk, writeOk) ==
  /\ LET r == SetActiveModelOf(modelsItem, modelId, readOk, writeOk)
     IN /\ modelsItem' = r.item
        /\ lastModelOp' = [op |-> "setActive", id |-> modelId,
                           readOk |-> readOk, threw |-> r.threw,
                           flip |-> ~lastModelOp.flip]
  /\ UNCHANGED <<now, experiencesItem, statsItem, secureStore, mode,
                 currentThoughtStream, calls, lastOp, started, faults, answer,
                 modelFiles, lastDownload,
                 uiVars, appVars>>


\* ------------------------------------------------------- AgentProvider
\* A handleExecuteTask invocation runs on the executeTask slot it calls:
\* handlers[c] is idle, executing (awaiting agent.executeTask), load_recent,
\* load_stats (awaiting the two reloads), returned or thrown.
HandlerRunning(c) == handlers[c] \in {"executing", "load_recent", "load_stats"}

\* handleExecuteTask, lines 75-79: up to the first await inside executeTask.
HandleExecuteTask(c, taskDescription, limit) ==
  /\ ~HandlerRunning(c)
  /\ Start(c, taskDescription, limit)
  /\ isProcessing' = TRUE
  /\ handlers' = [handlers EXCEPT ![c] = "executing"]
  /\ UNCHANGED <<providerThoughtStream, recentExperiences, memoryStats>>

\* Lines 79-85: executeTask has resolved; loadRecentExperiences starts.
HandleResolved(c) ==
  /\ handlers[c] = "executing"
  /\ calls[c].pc = "resolved"
  /\ providerThoughtStream' = Some(Get(calls[c].returned).reasoning)
  /\ handlers' = [handlers EXCEPT ![c] = "load_recent"]
  /\ UNCHANGED <<now, experiencesItem, statsItem, secureStore, mode,
                 currentThoughtStream, calls, lastOp, started, faults,
                 answer, modelVars, isProcessing, recentExperiences,
                 memoryStats, appVars>>

\* loadRecentExperiences; loadMemoryStats starts (line 86).
LoadRecentExperiences(c, readOk) ==
  /\ handlers[c] = "load_recent"
  /\ recentExperiences' =
       Reverse(SliceLast(GetAllExperiences(experiencesItem, readOk), 5))
  /\ handlers' = [handlers EXCEPT ![c] = "load_stats"]
  /\ UNCHANGED <<now, experiencesItem, statsItem, secureStore, mode,
                 currentThoughtStream, calls, lastOp, started, faults,
                 answer, modelVars, isProcessing, providerThoughtStream,
                 memoryStats, appVars>>

\* loadMemoryStats, then lines 88 and 92-94: return, and the finally block.
LoadMemoryStats(c, F) ==
  /\ handlers[c] = "load_stats"
  /\ LET g == GetMemoryStats(Storage, F, "sRead", "sInit", now)
     IN /\ F \subseteq g.st.used
        /\ statsItem' = g.st.stats
        /\ memoryStats' = [totalExperiences |-> g.stats.totalExperiences,
                           totalMemorySize |-> g.stats.totalMemorySize]
  /\ isProcessing' = FALSE
  /\ handlers' = [handlers EXCEPT ![c] = "returned"]
  /\ faults' = faults + Cardinality(F)
  /\ UNCHANGED <<now, experiencesItem, secureStore, mode,
                 currentThoughtStream, calls, lastOp, started,
                 answer, modelVars, providerThoughtStream, recentExperiences,
                 appVars>>

\* Lines 89-94: executeTask has rejected; the error is logged and thrown
\* again, and the finally block runs.
HandleRejected(c) ==
  /\ handlers[c] = "executing"
  /\ calls[c].pc = "rejected"
  /\ isProcessing' = FALSE
  /\ handlers' = [handlers EXCEPT ![c] = "thrown"]
  /\ UNCHANGED <<now, experiencesItem, statsItem, secureStore, mode,
                 currentThoughtStream, calls, lastOp, started, faults,
                 answer, modelVars, providerThoughtStream, recentExperiences,
                 memoryStats, appVars>>


\* ------------------------------------------------------- App.js chat
\* onChangeText of the text input
ChangeText(text) ==
  /\ input' = text
  /\ UNCHANGED <<now, experiencesItem, statsItem, secureStore, mode,
                 currentThoughtStream, calls, lastOp, started, faults,
                 answer, modelVars, uiVars, messages, sends, alerts>>

\* send, lines 45-51: up to the await of context.completion.  A send with a
\* blank input returns at line 45.
Send(k, limit) ==
  /\ sends[k] = None
  /\ Len(messages) < limit
  /\ Trim(input) # ""
  /\ LET userMsg == [role |-> "user", text |-> input]
     IN /\ messages' = Append(messages, userMsg)
        /\ sends' = [sends EXCEPT ![k] = Some([userMsg |-> userMsg,
                                               prompt |-> input])]
  /\ input' = ""
  /\ UNCHANGED <<now, experiencesItem, statsItem, secureStore, mode,
                 currentThoughtStream, calls, lastOp, started, faults,
                 answer, modelVars, uiVars, alerts>>

\* Lines 51-52: the completion has resolved with the given text.
CompletionResolves(k, text) ==
  /\ IsSome(sends[k])
  /\ messages' = messages \o <<Get(sends[k]).userMsg,
                               [role |-> "ai", text |-> text]>>
  /\ sends' = [sends EXCEPT ![k] = None]
  /\ UNCHANGED <<now, experiencesItem, statsItem, secureStore, mode,
                 currentThoughtStream, calls, lastOp, started, faults,
                 answer, modelVars, uiVars, input, alerts>>

\* Lines 53-55: the completion has rejected.
CompletionRejects(k) ==
  /\ IsSome(sends[k])
  /\ alerts' = alerts + 1
  /\ sends' = [sends EXCEPT ![k] = None]
  /\ UNCHANGED <<now, experiencesItem, statsItem, secureStore, mode,
                 currentThoughtStream, calls, lastOp, started, faults,
                 answer, modelVars, uiVars, messages, input>>

\* Ids a caller may pass to deleteExperience: the stored ones and one that
\* no record has.
DeleteIds == {Stored[i].id : i \in 1..Len(Stored)} \cup {"exp_task_none"}

\* I/O operations of each store operation.
StoreWriteOps == {"write", "cRead", "cWrite", "cStatsRead", "cStatsInit",
                  "cStatsWrite", "uRead", "uStatsRead", "uStatsInit",
                  "uStatsWrite"}
DeleteOps == {"read", "write", "uRead", "uStatsRead", "uStatsInit", "uStatsWrite"}
ClearOps == {"remove", "statsWrite"}

\* ------------------------------------------------------- specifications
\* The steps of the executeTask invocations in progress; writeOps are the
\* I/O operations of storeExperience that may fail.
Steps(writeOps, faultLimit) ==
  \/ \E c \in Slots : PlanPhase(c)
  \/ \E c \in Slots, o \in FetchOutcomes, F \in FaultSets({"getItem"}, faultLimit) :
       ExecutePhase(c, o, F)
  \/ \E c \in Slots, F \in FaultSets({"read"}, faultLimit) : ReflectPhase(c, F)
  \/ \E c \in Slots, F \in FaultSets({"read"}, faultLimit) : StoreRead(c, F)
  \/ \E c \in Slots, F \in FaultSets(writeOps, faultLimit) : StoreWrite(c, F)

\* Spec: the agent.  One executeTask at a time, in every mode, with every
\* provider outcome; the vault I/O, the reads of the record set and the
\* write of the record set may fail.  The clock stands still.
Next ==
  \/ \E p \in VaultProviders, k \in Secrets, ok \in BOOLEAN : StoreKey(p, k, ok)
  \/ \E p \in VaultProviders, ok \in BOOLEAN : DeleteKey(p, ok)
  \/ \E m \in ModeInputs : SetMode(m)
  \/ \E d \in TaskDescriptions : Quiescent /\ Start(1, d, MaxCalls) /\ UNCHANGED uiVars
  \/ Steps({"write"}, MaxFaults)

Spec == Init /\ [][Next]_vars

\* SpecStore: the store under a sequence of offline executeTask calls (one
\* at a time), deleteExperience and clearAllExperiences, while the clock
\* advances and any I/O operation of the store may fail.
NextStore ==
  \/ Tick(MaxStoreTime)
  \/ Quiescent /\ Start(1, "hi", MaxStoreCalls) /\ UNCHANGED uiVars
  \/ Steps(StoreWriteOps, MaxStoreFaults)
  \/ \E id \in DeleteIds, F \in FaultSets(DeleteOps, MaxStoreFaults) :
       Quiescent /\ DeleteExperience(id, F)
  \/ \E F \in FaultSets(ClearOps, MaxStoreFaults) :
       Quiescent /\ ClearAllExperiences(F)

SpecStore == Init /\ [][NextStore]_vars

\* SpecMemory: the record set under the operations that change it.  Offline
\* executeTask calls (one at a time) fill it, deleteExperience and
\* clearAllExperiences are called between them; the clock advances and the
\* reads of the record set and the I/O of the two operations may fail.
NextMemory ==
  \/ Tick(MaxMemoryTime)
  \/ Quiescent /\ Start(1, "hi", MaxMemoryCalls) /\ UNCHANGED uiVars
  \/ Steps({}, MaxMemoryFaults)
  \/ \E id \in DeleteIds, F \in FaultSets({"read", "write"}, MaxMemoryFaults) :
       Quiescent /\ DeleteExperience(id, F)
  \/ \E F \in FaultSets(ClearOps, MaxMemoryFaults) :
       Quiescent /\ ClearAllExperiences(F)

SpecMemory == Init /\ [][NextMemory]_vars

\* SpecQuery: the record set under the operations that read it.  Offline
\* executeTask calls (one at a time) fill it, searchExperiences and
\* getSuccessRate are called between them; the reads of the record set may
\* fail.  The clock stands still.
NextQuery ==
  \/ \E d \in MemoryTasks : Quiescent /\ Start(1, d, MaxQueryCalls) /\ UNCHANGED uiVars
  \/ Steps({}, MaxQueryFaults)
  \/ \E q \in Queries, F \in FaultSets({"read"}, MaxQueryFaults) :
       Quiescent /\ SearchExperiences(q, F)
  \/ \E F \in FaultSets({"read"}, MaxQueryFaults) :
       Quiescent /\ GetSuccessRate(F)

SpecQuery == Init /\ [][NextQuery]_vars

\* SpecOverlap: offline executeTask calls that may overlap: a call may start
\* while another one waits for I/O, and the calls in progress take their
\* steps in any order.  No I/O operation fails; the clock advances.
NextOverlap ==
  \/ Tick(MaxOverlapTime)
  \/ \E c \in Slots : Start(c, "hi", MaxOverlapCalls) /\ UNCHANGED uiVars
  \/ Steps({}, 0)

SpecOverlap == Init /\ [][NextOverlap]_vars

\* SpecModels: the model manager.  downloadModel is called on devices with
\* different amounts of free space and with every behaviour of the transfer,
\* setActiveModel is called with stored and unknown ids; the clock advances
\* and the I/O on the model list may fail.
NextModels ==
  \/ Tick(MaxModelTime)
  \/ \E device \in DeviceFreeSpace, url \in ModelUrls, modelName \in ModelNames,
        transfer \in Transfers, F \in SUBSET {"mRead", "mWrite"} :
       DownloadModel(device, url, modelName, transfer, F)
  \/ \E id \in ModelIds, readOk \in BOOLEAN, writeOk \in BOOLEAN :
       SetActiveModel(id, readOk, writeOk)

SpecModels == Init /\ [][NextModels]_vars

\* SpecModelList: the stored model list under the operations that write it.
\* Records are saved for files that passed the integrity check (up to
\* MaxModels of them), setActiveModel and deleteModel are called with stored
\* and unknown ids; the clock advances and the I/O of the three operations
\* may fail.
NextModelList ==
  \/ Tick(MaxListTime)
  \/ \E url \in ModelUrls, modelName \in ModelNames,
        F \in SUBSET {"mRead", "mWrite"} :
       SaveModel(url, modelName, MB, F, MaxModels)
  \/ \E id \in ModelIds, readOk \in BOOLEAN, writeOk \in BOOLEAN :
       SetActiveModel(id, readOk, writeOk)
  \/ \E id \in ModelIds, F \in SUBSET {"gRead", "fDelete", "mRead", "mWrite"} :
       DeleteModel(id, F)

SpecModelList == Init /\ [][NextModelList]_vars

\* SpecProvider: the AgentProvider.  handleExecuteTask is called with
\* offline tasks, also while an earlier call is still running; the calls in
\* progress take their steps in any order, and the write of the record set
\* and the I/O of the reloads may fail.  The clock stands still.
NextProvider ==
  \/ \E c \in Slots : HandleExecuteTask(c, "hi", MaxProviderCalls)
  \/ Steps({"write"}, MaxProviderFaults)
  \/ \E c \in Slots : HandleResolved(c)
  \/ \E c \in Slots, readOk \in BOOLEAN : LoadRecentExperiences(c, readOk)
  \/ \E c \in Slots, F \in FaultSets({"sRead", "sInit"}, MaxProviderFaults) :
       LoadMemoryStats(c, F)
  \/ \E c \in Slots : HandleRejected(c)

SpecProvider == Init /\ [][NextProvider]_vars

\* SpecChat: the App.js chat once the model is ready.  The user types and
\* sends, also while an earlier completion is pending; each completion
\* resolves or rejects.
NextChat ==
  \/ \E text \in ChatInputs : ChangeText(text)
  \/ \E k \in SendSlots : Send(k, MaxMessages)
  \/ \E k \in SendSlots, text \in Replies : CompletionResolves(k, text)
  \/ \E k \in SendSlots : CompletionRejects(k)

SpecChat == Init /\ [][NextChat]_vars

\* SpecVault: the credential vault under the settings screen: keys are
\* stored, deleted and read for every provider, and each SecureStore
\* operation may fail.
NextVault ==
  \/ \E p \in Providers, k \in VaultSecrets, ok \in BOOLEAN : StoreKey(p, k, ok)
  \/ \E p \in Providers, ok \in BOOLEAN : DeleteKey(p, ok)
  \/ \E p \in Providers, ok \in BOOLEAN : GetKeyCall(p, ok)

SpecVault == Init /\ [][NextVault]_vars

\* ------------------------------------------------------------ properties
Range(q) == {q[i] : i \in 1..Len(q)}
Done(c) == calls[c].pc \in {"resolved", "rejected"}
\* The store operation op completes in this step.
Completes(op) == lastOp'.flip # lastOp.flip /\ lastOp'.op = op
StrictlyIncreasing(q) ==
  \A i \in 1..(Len(q) - 1) : q[i].timestamp < q[i + 1].timestamp
\* The records of the store that carry the id of call c's Experience.
RecordsOf(c) == {i \in 1..Len(Stored) : Stored[i].id = "exp_" \o calls[c].taskId}

\* C1: every executeTask call, resolved or rejected, leaves the store with
\* exactly one record more than it held when the call started.
C1_ExactlyOneAppended ==
  [][\A c \in Slots :
       (InFlight(c) /\ calls'[c].pc \in {"resolved", "rejected"})
         => Len(GetAllExperiences(experiencesItem', TRUE))
              = calls'[c].countAtStart + 1]_vars

\* C2: a storeExperience that finds MAX_EXPERIENCES records with strictly
\* increasing timestamps leaves the newest floor(max * 0.8) of them plus the
\* new record, and nothing else.
C2_EvictionKeepsNewest ==
  [][\A c \in Slots :
       ( /\ calls[c].pc = "store_write"
         /\ Completes("store")
         /\ ~lastOp'.threw /\ ~lastOp'.failed
         /\ calls[c].experiences = Stored
         /\ Len(Stored) = MAX_EXPERIENCES
         /\ StrictlyIncreasing(Stored) )
       => LET after == GetAllExperiences(experiencesItem', TRUE)
              newest == SubSeq(Stored, MAX_EXPERIENCES - KeepCount + 1,
                               MAX_EXPERIENCES)
          IN /\ Len(after) = KeepCount + 1
             /\ Range(after) = Range(newest) \cup {Get(calls[c].experience)}]_vars

\* C3: the store never holds more than MAX_EXPERIENCES records.
C3_AtMostMax == Len(Stored) <= MAX_EXPERIENCES

\* C4: below the maximum, storeExperience keeps every stored record and
\* deleteExperience(id) keeps every record with another id, whichever I/O
\* operation fails on the way.
C4_NoSilentDrop ==
  [][(Len(Stored) < MAX_EXPERIENCES)
       => LET after == GetAllExperiences(experiencesItem', TRUE)
          IN /\ Completes("store") => Range(Stored) \subseteq Range(after)
             /\ Completes("delete") =>
                  \A e \in Range(Stored) : e.id # lastOp'.id => e \in Range(after)]_vars

\* C5: no two records of the store have the same id.
C5_UniqueIds ==
  \A i, j \in 1..Len(Stored) : i # j => Stored[i].id # Stored[j].id

\* A failure Experience for call c is in the store, with output and
\* errorMessage equal to text.
FailureRecorded(c, text) ==
  \E i \in RecordsOf(c) :
    /\ ~Stored[i].success
    /\ Stored[i].output = text
    /\ Stored[i].errorMessage = Some(text)

\* C6: a cloud-mode call that finds no stored credential for its provider
\* rejects, and exactly one Experience of that call is in the store, with
\* success = false and errorMessage set.
C6_MissingCredentialFails ==
  \A c \in Slots :
    (Done(c) /\ calls[c].execMode.type = "cloud" /\ calls[c].credential = None)
      => /\ calls[c].pc = "rejected"
         /\ Cardinality(RecordsOf(c)) = 1
         /\ \A i \in RecordsOf(c) :
              ~Stored[i].success /\ IsSome(Stored[i].errorMessage)

\* C7: a cloud-mode call with a stored credential whose provider call fails
\* (non-2xx, transport failure, unexpected shape) rejects, and the
\* Experience persisted for it is a failure record.
C7_RemoteFailureAborts ==
  \A c \in Slots :
    (Done(c) /\ calls[c].execMode.type = "cloud" /\ IsSome(calls[c].credential)
       /\ calls[c].fetchOutcome \in {"status", "reject", "shape"})
      => /\ calls[c].pc = "rejected"
         /\ \A i \in RecordsOf(c) :
              ~Stored[i].success /\ IsSome(Stored[i].errorMessage)

\* C8 as stated: whenever executeTask has rejected, the store holds a failure
\* Experience of that call whose output and errorMessage are the string form
\* of the error the caller received.
C8_RejectAlwaysRecorded ==
  \A c \in Slots :
    calls[c].pc = "rejected" => FailureRecorded(c, Get(calls[c].thrown).text)

\* C8 (amended): when executeTask rejects with the error it caught from its
\* first storeExperience call, the store holds a failure Experience of that
\* call whose output and errorMessage are that error's string form; it
\* rejects with another error only when the storeExperience call of the
\* catch block threw it.
C8_RejectRecordedWhenStored ==
  \A c \in Slots :
    calls[c].pc = "rejected" =>
      LET thrown == Get(calls[c].thrown)
      IN IF thrown = Get(calls[c].error)
         THEN FailureRecorded(c, thrown.text)
         ELSE thrown.raisedBy = 2 /\ lastOp.op = "store" /\ lastOp.threw

C8_Witness ==
  \E c \in Slots :
    /\ calls[c].pc = "rejected"
    /\ calls[c].thrown = calls[c].error
    /\ FailureRecorded(c, Get(calls[c].thrown).text)

PhaseOrder == <<"plan", "execute", "reflect">>
PhaseTypes(stream) == [i \in 1..Len(stream.phases) |-> stream.phases[i].type]

\* C9: the phases recorded so far are always a prefix of plan, execute,
\* reflect; a call that resolved returned, and persisted, exactly the three.
C9_PhaseOrder ==
  \A c \in Slots :
    LET types == PhaseTypes(calls[c].thoughtStream)
    IN /\ Len(types) <= 3
       /\ types = SubSeq(PhaseOrder, 1, Len(types))
       /\ calls[c].pc = "resolved" =>
            /\ PhaseTypes(Get(calls[c].returned).reasoning) = PhaseOrder
            /\ Get(calls[c].returned) \in Range(Stored)

C9_Witness ==
  \E c \in Slots :
    /\ calls[c].pc = "resolved"
    /\ Len(calls[c].thoughtStream.phases) = 3
    /\ Get(calls[c].returned) \in Range(Stored)

\* The five characters e, r, r, o, r occur in s one after the other.
HasLowercaseError(s) ==
  \E i \in 1..(Len(s) - 4) :
    /\ SubSeq(s, i, i) = "e"
    /\ SubSeq(s, i + 1, i + 2) = "rr"
    /\ SubSeq(s, i + 3, i + 3) = "o"
    /\ SubSeq(s, i + 4, i + 4) = "r"

\* C10: a call that resolved has success = false exactly when the content
\* of its execute phase contains "error" in lower case.
C10_SuccessHeuristic ==
  \A c \in Slots :
    calls[c].pc = "resolved" =>
      LET e == Get(calls[c].returned)
      IN /\ e.success = ~HasLowercaseError(e.reasoning.phases[2].content)
         /\ e \in Range(Stored)

C10_Witness ==
  \E c \in Slots :
    /\ calls[c].pc = "resolved"
    /\ Get(calls[c].returned).reasoning.phases[2].content
         = "Execution failed: Error: No API key found for openai"
    /\ Get(calls[c].returned).success

StoredIds == {Stored[i].id : i \in 1..Len(Stored)}

\* C11: while no I/O operation fails, deleteExperience with an id that no
\* stored record has does not raise and leaves the stored records, and so
\* their count, as they were - each time it is called.
C11_IdempotentDelete ==
  [][(Completes("delete") /\ ~lastOp'.failed /\ lastOp'.id \notin StoredIds)
       => /\ ~lastOp'.threw
          /\ GetAllExperiences(experiencesItem', TRUE) = Stored]_vars

C11_Witness ==
  /\ lastOp.op = "delete"
  /\ lastOp.id = "exp_task_none"
  /\ ~lastOp.threw /\ ~lastOp.failed
  /\ Len(Stored) = 2

\* C12: whenever storeExperience or deleteExperience raises its error, the
\* record set is the one that was there before the call, also when the
\* store was at its maximum and eviction had started.
C12_FailureLeavesStoreIntact ==
  [][((Completes("store") \/ Completes("delete")) /\ lastOp'.threw)
       => GetAllExperiences(experiencesItem', TRUE) = Stored]_vars

\* A read operation of the store completes in this step.
Answers(op) == answer'.flip # answer.flip /\ answer'.op = op
EmptyRate == [successful |-> 0, failed |-> 0, rate |-> Fraction(0, 1)]

\* C13: when the storage medium fails, a read operation returns the empty
\* result without raising, and storeExperience (from its write on),
\* deleteExperience and clearAllExperiences raise whenever one of their I/O
\* operations fails.
C13_FailureAsymmetry ==
  [][/\ (Answers("search") /\ ~answer'.readOk) => answer'.result = <<>>
     /\ (Answers("successRate") /\ ~answer'.readOk) => answer'.result = EmptyRate
     /\ ((Completes("store") \/ Completes("delete") \/ Completes("clear"))
           /\ lastOp'.failed) => lastOp'.threw]_vars

\* C14: when two executeTask calls, overlapping or not, have both resolved,
\* the store holds two records and the Experience each call returned is
\* among them.
C14_OverlapPersistsBoth ==
  (calls[1].pc = "resolved" /\ calls[2].pc = "resolved")
    => /\ Len(Stored) = 2
       /\ \A c \in Slots : Get(calls[c].returned) \in Range(Stored)

\* Two characters are the same letter in either case, or the same character.
SameIgnoringCase(a, b) ==
  a = b \/ \E k \in 1..26 : {a, b} = {Upper[k], Lower[k]}
\* q occurs in s at some position when case is ignored.
ContainsIgnoringCase(s, q) ==
  \E i \in 0..(Len(s) - Len(q)) :
    \A k \in 1..Len(q) :
      SameIgnoringCase(SubSeq(s, i + k, i + k), SubSeq(q, k, k))
MatchesQuery(e, q) ==
  \/ ContainsIgnoringCase(e.taskDescription, q)
  \/ ContainsIgnoringCase(e.input, q)
  \/ ContainsIgnoringCase(e.output, q)

\* C15: searchExperiences(query) returns the stored records whose
\* taskDescription, input or output contains query when case is ignored,
\* all of them and no others, in store order (the empty list when none
\* matches); when the read of the record set fails it returns the empty list.
C15_SearchIsSubstringMatch ==
  [][Answers("search") =>
       answer'.result =
         IF answer'.readOk
         THEN SelectSeqBy(Stored, {i \in 1..Len(Stored) :
                                     MatchesQuery(Stored[i], answer'.arg)})
         ELSE <<>>]_vars

C15_Witness ==
  /\ answer.op = "search" /\ answer.arg = "HI" /\ answer.readOk
  /\ Len(Stored) = 2
  /\ answer.result = Stored
  /\ Stored[1].taskDescription # Stored[2].taskDescription

\* C16: getSuccessRate returns successful = the number of records with
\* success = true, failed = the record count minus successful, and
\* rate = 100 * successful / count, rate = 0 for no records; successful +
\* failed is the record count.  The records are those it read: none when the
\* read fails.
C16_SuccessRate ==
  [][Answers("successRate") =>
       LET r == answer'.result
           records == IF answer'.readOk THEN Stored ELSE <<>>
           n == Len(records)
           k == Cardinality({i \in 1..n : records[i].success})
       IN /\ r.successful = k
          /\ r.failed = n - k
          /\ r.successful + r.failed = n
          /\ r.rate[2] > 0
          /\ r.rate[1] * n = 100 * k * r.rate[2]
          /\ n = 0 => r.rate[1] = 0]_vars

C16_Witness ==
  /\ answer.op = "successRate" /\ answer.readOk
  /\ answer.result.successful = 1
  /\ answer.result.failed = 1
  /\ answer.result.rate = <<50, 1>>

\* Call c completes its reflect phase in this step.
Reflects(c) == calls[c].pc = "reflect" /\ calls'[c].pc = "store_read"
\* The reflect-phase details agree with the set similar of indices of the
\* records read: its size, and the share of successes in it (0 for none).
DetailsCount(details, records, similar) ==
  LET n == Cardinality(similar)
      k == Cardinality({i \in similar : records[i].success})
  IN /\ details.similarExperiences = n
     /\ details.successRate[2] > 0
     /\ details.successRate[1] * n = k * details.successRate[2]
     /\ n = 0 => details.successRate[1] = 0

\* C17 as stated: the reflect phase counts as similar every stored record
\* whose taskDescription contains the task text or is contained in it, case
\* ignored; details.similarExperiences is that count and details.successRate
\* is successful matches / matches, 0 without matches.
C17_ReflectCountsSymmetric ==
  [][\A c \in Slots : (Reflects(c) /\ faults' = faults) =>
       DetailsCount(calls'[c].thoughtStream.phases[3].details, Stored,
         {i \in 1..Len(Stored) :
            \/ ContainsIgnoringCase(Stored[i].taskDescription, calls[c].taskDescription)
            \/ ContainsIgnoringCase(calls[c].taskDescription, Stored[i].taskDescription)})]_vars

\* C17 (amended): the reflect phase counts as similar the records it read
\* (all stored records, none when the read fails) whose taskDescription
\* contains the task text, case ignored - not those that are merely
\* contained in it; details.similarExperiences is that count and
\* details.successRate is successful matches / matches, 0 without matches.
C17_ReflectCountsContaining ==
  [][\A c \in Slots : Reflects(c) =>
       LET records == IF faults' = faults THEN Stored ELSE <<>>
       IN DetailsCount(calls'[c].thoughtStream.phases[3].details, records,
            {i \in 1..Len(records) :
               ContainsIgnoringCase(records[i].taskDescription,
                                    calls[c].taskDescription)})]_vars

C17_Witness ==
  \E c \in Slots :
    /\ calls[c].pc = "store_read"
    /\ calls[c].taskDescription = "hi"
    /\ Len(Stored) = 1
    /\ Stored[1].taskDescription = "Hi there error"
    /\ calls[c].thoughtStream.phases[3].details.similarExperiences = 1
    /\ calls[c].thoughtStream.phases[3].details.successRate = <<0, 1>>

\* Call c is past its execute phase.
Executed(c) == calls[c].pc \in {"reflect", "store_read", "store_write",
                                "resolved", "rejected"}

\* C18: an executeTask call issues exactly one HTTP request when it runs in
\* cloud mode and the vault returns the stored credential - also when that
\* request fails - and none when the mode is offline or the vault returns
\* no credential, as it does when none is stored; it never issues two.
C18_OneRequestPerCall ==
  \A c \in Slots :
    /\ calls[c].fetches <= 1
    /\ Executed(c) =>
         /\ calls[c].fetches =
              IF calls[c].execMode.type = "cloud" /\ IsSome(calls[c].apiKey)
              THEN 1 ELSE 0
         /\ calls[c].credential = None => calls[c].apiKey = None
         /\ IsSome(calls[c].apiKey) => calls[c].apiKey = calls[c].credential

C18_Witness ==
  \E c \in Slots :
    /\ Done(c)
    /\ calls[c].execMode.type = "cloud"
    /\ IsSome(calls[c].credential)
    /\ calls[c].fetchOutcome = "reject"
    /\ calls[c].fetches = 1

\* C19: after a clearAllExperiences that did not raise, whatever the store
\* held, getAllExperiences returns the empty list and the persisted stats
\* are totalExperiences = 0, totalMemorySize = 0 and lastCleanup = the time
\* of the call.
C19_ClearResets ==
  [][(Completes("clear") /\ ~lastOp'.threw)
       => /\ GetAllExperiences(experiencesItem', TRUE) = <<>>
          /\ IsSome(statsItem')
          /\ Get(statsItem').totalExperiences = 0
          /\ Get(statsItem').totalMemorySize = 0
          /\ Get(statsItem').lastCleanup = now]_vars

C19_Witness ==
  /\ lastOp.op = "clear" /\ ~lastOp.threw
  /\ calls[1].pc = "resolved"
  /\ now > calls[1].thoughtStream.startTime
  /\ Stored = <<>>
  /\ statsItem = Some([totalExperiences |-> 0, totalMemorySize |-> 0,
                       lastCleanup |-> now])

\* C20: on a device with at least 100 MB free, a downloadModel whose transfer
\* completes with a file of at least 1 MB resolves with a Model that has
\* isActive = false and is the last entry of the stored model list; it
\* rejects for insufficient storage only when less than 100 MB are free.
C20_DownloadWithEnoughSpace ==
  [][(lastDownload' # lastDownload) =>
       LET d == lastDownload'
       IN /\ (d.device >= 100 * MB /\ d.transfer = "file" /\ d.size >= MB)
               => /\ ~d.threw
                  /\ ~d.value.isActive
                  /\ LET models == GetAllModels(modelsItem', TRUE)
                     IN Len(models) > 0 /\ models[Len(models)] = d.value
          /\ (d.threw /\ d.value = "Error: Insufficient storage space")
               => d.device < 100 * MB]_vars

\* C21: after a storeKey(p, s) that succeeds, getKey(p) returns s; after a
\* deleteKey(p) that succeeds, getKey(p) returns null; what getKey returns
\* for every other provider is as before; a getKey call returns what the
\* vault holds for its provider.  The secrets are those the settings screen
\* stores, and getKey is one whose read succeeds.
C21_VaultRoundTrip ==
  [][/\ \A p \in Providers, s \in VaultSecrets :
          (secureStore' = [secureStore EXCEPT ![p] = Some(s)]) =>
             /\ GetKey(p, TRUE)' = Some(s)
             /\ \A q \in Providers \ {p} : GetKey(q, TRUE)' = GetKey(q, TRUE)
     /\ \A p \in Providers :
          (secureStore' = [secureStore EXCEPT ![p] = None]) =>
             /\ GetKey(p, TRUE)' = None
             /\ \A q \in Providers \ {p} : GetKey(q, TRUE)' = GetKey(q, TRUE)
     /\ (Answers("getKey") /\ answer'.readOk) =>
          answer'.result = secureStore[answer'.arg]]_vars

C21_Witness ==
  /\ answer.op = "getKey" /\ answer.arg = "anthropic" /\ answer.readOk
  /\ answer.result = Some("sk-other")
  /\ secureStore["anthropic"] = Some("sk-other")
  /\ secureStore["openai"] = Some("sk-test")
  /\ secureStore["gemini"] = None

\* The text executeOffline returns for a task text.
Placeholder(text) ==
  "[OFFLINE MODE] Processing: " \o text
    \o "\n\nNote: Local GGUF model integration pending."

\* C22: an executeTask call whose execute phase ran in offline mode and that
\* resolved returns an Experience whose output is the placeholder tagged
\* with the task text, whose success follows from that text, and whose
\* phases are plan, execute, reflect - whatever the vault holds - and it
\* issues no request.
C22_OfflineDeterminism ==
  \A c \in Slots :
    (calls[c].pc = "resolved" /\ calls[c].execMode.type = "offline") =>
      LET e == Get(calls[c].returned)
      IN /\ e.output = Placeholder(calls[c].taskDescription)
         /\ e.success = ~HasLowercaseError(Placeholder(calls[c].taskDescription))
         /\ PhaseTypes(e.reasoning) = PhaseOrder
         /\ calls[c].fetches = 0

C22_Witness ==
  \E c \in Slots :
    /\ calls[c].pc = "resolved"
    /\ calls[c].execMode.type = "offline"
    /\ IsSome(secureStore["openai"])
    /\ Get(calls[c].returned).success
    /\ Get(calls[c].returned).output = Placeholder("hi")

\* C23: a stored Experience has an errorMessage only if its success is false
\* and it was built for a propagated failure (the error raised by
\* storeExperience), its output then being its errorMessage; a record
\* without errorMessage has the execute content as output and success =
\* false exactly when that content contains "error"; no record with
\* success = true has an errorMessage.
C23_ErrorMessageOnlyOnFailure ==
  \A i \in 1..Len(Stored) :
    LET e == Stored[i]
    IN /\ IsSome(e.errorMessage) =>
            /\ ~e.success
            /\ e.output = Get(e.errorMessage)
            /\ e.output = StoreError.text
       /\ e.errorMessage = None =>
            /\ e.output = e.reasoning.phases[2].content
            /\ e.success = ~HasLowercaseError(e.output)
       /\ e.success => e.errorMessage = None

C23_Witness ==
  \E i \in 1..Len(Stored) :
    /\ IsSome(Stored[i].errorMessage)
    /\ ~Stored[i].success
    /\ calls[1].pc = "rejected"

\* C27: the mode recorded in the stored Experience of a call is the mode
\* its execute phase used, also when setMode was called in between.
C27_RecordedModeIsModeUsed ==
  \A c \in Slots :
    Done(c) => \A i \in RecordsOf(c) : Stored[i].mode = calls[c].execMode.type

\* C24: the endTime of a call's ThoughtStream is absent while its phases
\* run, present once the call has completed, and once it is set no later
\* step of the call changes it.
C24_EndTimeSetOnce ==
  [][\A c \in Slots :
       /\ calls'[c].pc \in {"plan", "execute", "reflect"}
            => calls'[c].thoughtStream.endTime = None
       /\ calls'[c].pc \in {"resolved", "rejected"}
            => IsSome(calls'[c].thoughtStream.endTime)
       /\ (InFlight(c) /\ IsSome(calls[c].thoughtStream.endTime))
            => calls'[c].thoughtStream.endTime = calls[c].thoughtStream.endTime]_vars

\* C25: after a storeExperience, deleteExperience or clearAllExperiences
\* that completed with every storage operation succeeding and no other
\* call overlapping it, the persisted stats' totalExperiences is the
\* number of records in the store; a storeExperience that ran no eviction
\* and every deleteExperience leave lastCleanup as it was.
C25_StatsFollowStore ==
  [][\A op \in {"store", "delete", "clear"} :
       (Completes(op) /\ ~lastOp'.failed /\ ~lastOp'.threw)
         => /\ IsSome(statsItem')
            /\ Get(statsItem').totalExperiences
                 = Len(GetAllExperiences(experiencesItem', TRUE))
            /\ (op # "clear" /\ ~lastOp'.evicted /\ IsSome(statsItem))
                 => Get(statsItem').lastCleanup = Get(statsItem).lastCleanup]_vars

C25_Witness ==
  /\ lastOp.op = "delete" /\ ~lastOp.failed /\ ~lastOp.threw
  /\ faults = 0
  /\ Len(Stored) = 1
  /\ Stored[1].id # lastOp.id
  /\ IsSome(statsItem)
  /\ Get(statsItem).totalExperiences = 1
  /\ Get(statsItem).lastCleanup < now

\* C26: the agent has one current-trace slot.  The step that starts an
\* executeTask call makes getCurrentThoughtStream return that call's trace,
\* also when another call is still running, and no other step changes the
\* slot; the Experience a call resolves with carries the call's own trace.
C26_SingleCurrentTrace ==
  [][\A c \in Slots :
       /\ (calls[c].pc # "plan" /\ calls'[c].pc = "plan")
            => /\ currentThoughtStream' = c
               /\ GetCurrentThoughtStream' = Some(calls'[c].thoughtStream)
       /\ started' = started => currentThoughtStream' = currentThoughtStream
       /\ (calls[c].pc # "resolved" /\ calls'[c].pc = "resolved")
            => /\ Get(calls'[c].returned).reasoning = calls'[c].thoughtStream
               /\ Get(calls'[c].returned).reasoning.taskId = calls'[c].taskId]_vars

C26_Witness ==
  /\ calls[1].pc = "resolved"
  /\ InFlight(2)
  /\ calls[2].countAtStart = 0
  /\ calls[2].taskId # calls[1].taskId
  /\ GetCurrentThoughtStream = Some(calls[2].thoughtStream)
  /\ Get(calls[1].returned).reasoning.taskId = calls[1].taskId

\* The stored models and the positions of the active ones.
StoredModels == GetAllModels(modelsItem, TRUE)
ActiveModels == {i \in 1..Len(StoredModels) : StoredModels[i].isActive}
ModelOpCompletes(op) ==
  /\ lastModelOp'.flip # lastModelOp.flip
  /\ lastModelOp'.op = op
  /\ ~lastModelOp'.threw
  /\ lastModelOp'.readOk

C29_ProcessingIffInFlight ==
  isProcessing <=> \E c \in Slots : HandlerRunning(c)

\* C30: in the App.js chat a send adds the user's message once; when its
\* completion succeeds the AI reply is added once after it, two entries in
\* all, and when its completion fails nothing more is added.
C30_SendAddsTwoEntries ==
  [][\A k \in SendSlots :
       /\ (sends[k] = None /\ IsSome(sends'[k]))
            => messages' = Append(messages, Get(sends'[k]).userMsg)
       /\ (IsSome(sends[k]) /\ sends'[k] = None /\ alerts' = alerts)
            => /\ Len(messages') = Len(messages) + 1
               /\ messages'[Len(messages')].role = "ai"
               /\ SubSeq(messages', 1, Len(messages)) = messages
       /\ (IsSome(sends[k]) /\ sends'[k] = None /\ alerts' # alerts)
            => messages' = messages]_vars

====
